---- MODULE Spec2Model ----
(***************************************************************************)
(* Model of sling's core: the liquidity graph (LnGraph, src/src/model.rs)  *)
(* and the job model (Job, src/src/lib.rs).                                *)
(*                                                                         *)
(* u64 values are modelled as naturals below U64Modulus, a scaled-down     *)
(* stand-in for 2^64 that is larger than every value of the model; the     *)
(* unsigned subtractions of the code wrap modulo it (release build) or     *)
(* panic (build with overflow checks).                                     *)
(***************************************************************************)
EXTENDS Integers, Sequences, FiniteSets, TLC

VARIABLES graph, now, call, jobcall,
          files, pending, written, crashed, ledgercall,
          lock, pass, worker, view,
          job_state, statecall, reported, stop_requested

\* the rebalance ledger: the files on disk, the writes handed to the blocking
\* pool and not yet run, and (history) the records of the calls that returned
\* Ok, whether the process has crashed, the ledger call in flight
ledgerVars == <<files, pending, written, crashed, ledgercall>>

\* the shared graph's mutex: its holder, the update or refresh_liquidity pass
\* under way, each job worker's position, the read a worker has just made
concVars == <<lock, pass, worker, view>>

\* one entry of the job-state registry, the JobState call in flight, and
\* (history) the state last reported to the entry and whether stop() was
\* called on it
registryVars == <<job_state, statecall, reported, stop_requested>>

vars == <<graph, now, call, jobcall, ledgerVars, concVars, registryVars>>

(***************************************************************************)
(* Bounds of the model.                                                    *)
(***************************************************************************)
\* the most edges one snapshot lists (over all its nodes)
MaxSnapEdges == 3
\* the clock (seconds since the epoch) when the program starts
StartTime == 60
\* the clock never passes MaxNow
MaxNow == 120

(***************************************************************************)
(* Program constants.                                                      *)
(***************************************************************************)
\* refresh_liquidity: `interval * 60`
SecsPerMinute == 60
\* stand-in for 2^64, the modulus of u64 arithmetic
U64Modulus == 2^30

\* Option<T>: None is {}, Some(v) is {v}
None == {}
Some(v) == {v}
IsSome(o) == o # {}
Unwrap(o) == CHOOSE v \in o : TRUE
UnwrapOr(o, d) == IF o = {} THEN d ELSE CHOOSE v \in o : TRUE

\* u64 subtraction without overflow checks
WrappingSub(a, b) == (a - b) % U64Modulus

(***************************************************************************)
(* Input domains.                                                          *)
(***************************************************************************)
PublicKeys == 1..3
ShortChannelIds == 1..2
\* the nodes a snapshot lists
SnapNodes == 1..2

\* the other endpoint of channel s seen from node n (never n itself)
PeerOf(n, s) == ((n + s - 1) % 3) + 1

\* a ListchannelsChannels record: the fields the graph reads
Channel(src, scid, amt, hmin, hmax, fee) ==
    [source |-> src, destination |-> PeerOf(src, scid), short_channel_id |-> scid,
     amount_msat |-> amt, htlc_minimum_msat |-> hmin, htlc_maximum_msat |-> hmax,
     fee_per_millionth |-> fee]

\* the channel policies (capacity, htlc minimum, htlc maximum, fee rate) a
\* snapshot may announce for channel 1 of node 1
Policies ==
    { <<8, 0, Some(2), 1>>,      \* base
      <<8, 0, Some(6), 1>>,      \* htlc maximum changed
      <<8, 0, None, 1>>,         \* htlc maximum absent
      <<8, 0, Some(2), 2>>,      \* fee rate changed
      <<12, 2, Some(2), 1>> }    \* only capacity and htlc minimum changed

\* the channels a snapshot may list under node n
ChannelsOf(n) ==
    IF n = 1
    THEN { Channel(1, 1, p[1], p[2], p[3], p[4]) : p \in Policies }
         \cup { Channel(1, 2, 8, 0, None, 1) }
    ELSE { Channel(n, 1, 8, 0, Some(2), 1) }

BoundedSeq(S, n) == UNION { [1..k -> S] : k \in 0..n }

\* a snapshot's channel lists: a map from some of SnapNodes to a list of channels
ChannelLists ==
    UNION { { f \in [D -> BoundedSeq(UNION { ChannelsOf(n) : n \in D }, MaxSnapEdges)] :
                /\ \A n \in D : \A i \in 1..Len(f[n]) : f[n][i].source = n
                /\ \A n \in D : \A m \in D : n # m => Len(f[n]) + Len(f[m]) <= MaxSnapEdges }
            : D \in SUBSET SnapNodes }

Intervals == 0..2

(***************************************************************************)
(* DirectedChannel and LnGraph.                                            *)
(***************************************************************************)
\* DirectedChannel::new at clock t
DirectedChannelNew(channel, t) ==
    [channel |-> channel,
     liquidity |-> UnwrapOr(channel.htlc_maximum_msat, channel.amount_msat) \div 2,
     timestamp |-> t]

\* the LnGraph built from channel lists at clock t
SnapshotGraph(lists, t) ==
    [n \in DOMAIN lists |->
        [i \in 1..Len(lists[n]) |-> DirectedChannelNew(lists[n][i], t)]]

\* LnGraph::new
LnGraphNew == << >>

Ids(channels) == { channels[i].channel.short_channel_id : i \in 1..Len(channels) }

\* the position of the first edge with that short channel id, 0 when there is none
Find(channels, scid) ==
    IF \E i \in 1..Len(channels) : channels[i].channel.short_channel_id = scid
    THEN CHOOSE i \in 1..Len(channels) :
            /\ channels[i].channel.short_channel_id = scid
            /\ \A j \in 1..(i - 1) : channels[j].channel.short_channel_id # scid
    ELSE 0

\* update: the condition under which an existing edge's belief is reset
PolicyChanged(old, new) ==
    \/ /\ IsSome(old.htlc_maximum_msat)
       /\ IsSome(new.htlc_maximum_msat)
       /\ Unwrap(old.htlc_maximum_msat) # Unwrap(new.htlc_maximum_msat)
    \/ old.fee_per_millionth # new.fee_per_millionth

\* a merge that never looks for the existing edge
MergeChannelAlwaysPush(old_channels, new_channel) == Append(old_channels, new_channel)

\* update: the match on old_channel for one channel of the snapshot
MergeChannel(old_channels, new_channel) ==
    LET i == Find(old_channels, new_channel.channel.short_channel_id) IN
    IF i # 0
    THEN LET old_channel == old_channels[i]
             reset == PolicyChanged(old_channel.channel, new_channel.channel)
         IN [old_channels EXCEPT ![i] =
                [channel |-> new_channel.channel,
                 liquidity |-> IF reset THEN new_channel.liquidity ELSE old_channel.liquidity,
                 timestamp |-> IF reset THEN new_channel.timestamp ELSE old_channel.timestamp]]
    ELSE Append(old_channels, new_channel)

RECURSIVE MergeChannels(_, _, _)
\* update: the loop over new_channels, from position k on
MergeChannels(old_channels, new_channels, k) ==
    IF k > Len(new_channels)
    THEN old_channels
    ELSE MergeChannels(MergeChannel(old_channels, new_channels[k]), new_channels, k + 1)

\* update: old_channels.retain(..)
Retain(old_channels, new_channels) ==
    SelectSeq(old_channels, LAMBDA e : e.channel.short_channel_id \in Ids(new_channels))

\* update: the body of the loop over the nodes of new_graph
MergeNode(old_channels, new_channels) ==
    MergeChannels(Retain(old_channels, new_channels), new_channels, 1)

\* an update that forgets the final retain over the nodes
UpdateKeepsNodes(g, new_graph) ==
    [n \in DOMAIN new_graph \cup DOMAIN g |->
        IF n \in DOMAIN new_graph
        THEN MergeNode(IF n \in DOMAIN g THEN g[n] ELSE << >>, new_graph[n])
        ELSE g[n]]

\* LnGraph::update
Update(g, new_graph) ==
    [n \in DOMAIN new_graph |->
        MergeNode(IF n \in DOMAIN g THEN g[n] ELSE << >>, new_graph[n])]

NoCall == [op |-> "none"]

SUCCESSES_SUFFIX == "_successes.json"
FAILURES_SUFFIX == "_failures.json"

\* the log files of the ledger: <<chan_id, suffix>> stands for the path
\* sling_dir.join(chan_id.to_string() + suffix)
Logs == { <<1, SUCCESSES_SUFFIX>>, <<1, FAILURES_SUFFIX>>, <<2, SUCCESSES_SUFFIX>> }

\* an empty ledger directory, nothing in flight
LedgerInit ==
    /\ files = << >>
    /\ pending = << >>
    /\ written = [l \in Logs |-> << >>]
    /\ crashed = FALSE
    /\ ledgercall = NoCall

\* JobMessage
JobMessages ==
    {"Starting", "Rebalancing", "Balanced", "NoCandidates", "HTLCcapped", "Disconnected",
     "PeerNotFound", "PeerNotReady", "ChanNotNormal", "GraphEmpty", "ChanNotInGraph",
     "NoRoute", "TooExp", "Stopping", "Stopped", "Error", "NoJob"}

\* JobState::new
JobStateNew(latest_state, id) ==
    [latest_state |-> latest_state, active |-> TRUE, should_stop |-> FALSE, id |-> id]

\* JobState::missing
JobStateMissing ==
    [latest_state |-> "NoJob", active |-> FALSE, should_stop |-> FALSE, id |-> 0]

\* a lookup in the empty registry: the synthesized missing() record
RegistryInit ==
    /\ job_state = JobStateMissing
    /\ statecall = NoCall
    /\ reported = "NoJob"
    /\ stop_requested = FALSE

\* the job workers that read the shared graph
Workers == {"w1", "w2"}

\* the mutex is free, no pass is under way, the workers are elsewhere
ConcInit ==
    /\ lock = "free"
    /\ pass = NoCall
    /\ worker = [w \in Workers |-> [pc |-> "idle", torn |-> FALSE]]
    /\ view = NoCall

Init ==
    /\ graph = LnGraphNew
    /\ now = StartTime
    /\ call = NoCall
    /\ jobcall = NoCall
    /\ LedgerInit
    /\ ConcInit
    /\ RegistryInit

\* the clock advances
Tick ==
    /\ call = NoCall
    /\ now + SecsPerMinute <= MaxNow
    /\ now' = now + SecsPerMinute
    /\ UNCHANGED <<graph, call, jobcall, ledgerVars, concVars, registryVars>>

\* graph.update(new_graph), new_graph built from a fresh channel list
UpdateCall ==
    /\ call = NoCall
    /\ \E lists \in ChannelLists :
          LET new_graph == SnapshotGraph(lists, now) IN
          /\ graph' = Update(graph, new_graph)
          /\ call' = [op |-> "update", new_graph |-> new_graph, pre |-> graph]
    /\ UNCHANGED <<now, jobcall, ledgerVars, concVars, registryVars>>

\* refresh_liquidity: the reset of one edge at clock t
ResetLiquidity(channel, t) ==
    [channel |-> channel.channel,
     liquidity |-> UnwrapOr(channel.channel.htlc_maximum_msat,
                            channel.channel.amount_msat) \div 2,
     timestamp |-> t]

\* refresh_liquidity: the test of one edge against the cutoff
IsStale(channel, cutoff) == channel.timestamp <= cutoff

\* LnGraph::refresh_liquidity, its loops, with `now - interval * 60` = cutoff
RefreshLiquidity(g, t, cutoff) ==
    [n \in DOMAIN g |->
        [i \in 1..Len(g[n]) |->
            IF IsStale(g[n][i], cutoff) THEN ResetLiquidity(g[n][i], t) ELSE g[n][i]]]

HasEdges(g) == \E n \in DOMAIN g : Len(g[n]) > 0

\* refresh_liquidity: `now - interval * 60` leaves the range of u64
Underflows(t, interval) == interval * SecsPerMinute > t

\* graph.refresh_liquidity(interval). The subtraction is evaluated once per edge:
\* when it underflows, a build with overflow checks panics at the first edge,
\* before any edge is written, and a build without them wraps.
RefreshCall ==
    /\ call = NoCall
    /\ \E interval \in Intervals, overflow_checks \in BOOLEAN :
          LET panics == overflow_checks /\ Underflows(now, interval) /\ HasEdges(graph)
              cutoff == WrappingSub(now, interval * SecsPerMinute)
          IN /\ graph' = IF panics THEN graph ELSE RefreshLiquidity(graph, now, cutoff)
             /\ call' = [op |-> "refresh_liquidity", interval |-> interval,
                         pre |-> graph, panicked |-> panics]
    /\ UNCHANGED <<now, jobcall, ledgerVars, concVars, registryVars>>

Contains(vec, x) == \E k \in 1..Len(vec) : vec[k] = x

\* a filter that forgets the liquidity belief
EdgeFilterNoLiquidity(i, mypubkey, exclude, exclude_peers, amount, candidatelist, tempbans) ==
    LET chan_str == i.channel.short_channel_id IN
    /\ chan_str \notin exclude
    /\ chan_str \notin DOMAIN tempbans
    /\ i.channel.htlc_minimum_msat <= amount
    /\ UnwrapOr(i.channel.htlc_maximum_msat, i.channel.amount_msat) >= amount
    /\ ~Contains(exclude_peers, i.channel.source)
    /\ ~Contains(exclude_peers, i.channel.destination)
    /\ IF i.channel.source = mypubkey \/ i.channel.destination = mypubkey
       THEN \E k \in 1..Len(candidatelist) : candidatelist[k] = chan_str
       ELSE TRUE

\* a filter that applies the candidate list to the source side only
EdgeFilterSourceOnly(i, mypubkey, exclude, exclude_peers, amount, candidatelist, tempbans) ==
    LET chan_str == i.channel.short_channel_id IN
    /\ chan_str \notin exclude
    /\ chan_str \notin DOMAIN tempbans
    /\ i.liquidity >= amount
    /\ i.channel.htlc_minimum_msat <= amount
    /\ UnwrapOr(i.channel.htlc_maximum_msat, i.channel.amount_msat) >= amount
    /\ ~Contains(exclude_peers, i.channel.source)
    /\ ~Contains(exclude_peers, i.channel.destination)
    /\ IF i.channel.source = mypubkey
       THEN \E k \in 1..Len(candidatelist) : candidatelist[k] = chan_str
       ELSE TRUE

\* edges: the filter closure
EdgeFilter(i, mypubkey, exclude, exclude_peers, amount, candidatelist, tempbans) ==
    LET chan_str == i.channel.short_channel_id IN
    /\ chan_str \notin exclude
    /\ chan_str \notin DOMAIN tempbans
    /\ i.liquidity >= amount
    /\ i.channel.htlc_minimum_msat <= amount
    /\ UnwrapOr(i.channel.htlc_maximum_msat, i.channel.amount_msat) >= amount
    /\ ~Contains(exclude_peers, i.channel.source)
    /\ ~Contains(exclude_peers, i.channel.destination)
    /\ IF i.channel.source = mypubkey \/ i.channel.destination = mypubkey
       THEN \E k \in 1..Len(candidatelist) : candidatelist[k] = chan_str
       ELSE TRUE

\* LnGraph::edges
Edges(g, mypubkey, node, exclude, exclude_peers, amount, candidatelist, tempbans) ==
    IF node \in DOMAIN g
    THEN SelectSeq(g[node],
                   LAMBDA i : EdgeFilter(i, mypubkey, exclude, exclude_peers, amount,
                                         candidatelist, tempbans))
    ELSE << >>

\* a lookup that takes the first match, however many there are
GetChannelFirstMatch(g, source, channel) ==
    IF source \in DOMAIN g
    THEN LET result == SelectSeq(g[source],
                                 LAMBDA i : i.channel.short_channel_id = channel)
         IN IF Len(result) = 0
            THEN [ok |-> FALSE, err |-> "not found in graph"]
            ELSE [ok |-> TRUE, value |-> result[1]]
    ELSE [ok |-> FALSE, err |-> "could not find channel in cached graph"]

\* LnGraph::get_channel
GetChannel(g, source, channel) ==
    IF source \in DOMAIN g
    THEN LET result == SelectSeq(g[source],
                                 LAMBDA i : i.channel.short_channel_id = channel)
         IN IF Len(result) # 1
            THEN [ok |-> FALSE, err |-> "not found in graph"]
            ELSE [ok |-> TRUE, value |-> result[1]]
    ELSE [ok |-> FALSE, err |-> "could not find channel in cached graph"]

\* the arguments a job worker passes to edges
Amounts == {1, 3}
ExcludeSets == { {}, {1} }
ExcludePeerLists == { << >>, <<2>> }
CandidateLists == { << >>, <<1>> }
\* the temp-ban map: channel id -> expiry, one expired and one current
TempBanMaps == { << >>, (2 :> 30), (1 :> 1000) }

\* a job worker calls graph.edges(..)
EdgesCall ==
    /\ call = NoCall
    /\ \E mypubkey \in PublicKeys, node \in SnapNodes, exclude \in ExcludeSets,
          exclude_peers \in ExcludePeerLists, amount \in Amounts,
          candidatelist \in CandidateLists, tempbans \in TempBanMaps :
          call' = [op |-> "edges", mypubkey |-> mypubkey, node |-> node,
                   exclude |-> exclude, exclude_peers |-> exclude_peers,
                   amount |-> amount, candidatelist |-> candidatelist,
                   tempbans |-> tempbans, pre |-> graph,
                   ret |-> Edges(graph, mypubkey, node, exclude, exclude_peers, amount,
                                 candidatelist, tempbans)]
    /\ UNCHANGED <<graph, now, jobcall, ledgerVars, concVars, registryVars>>

\* a job worker calls graph.get_channel(..)
GetChannelCall ==
    /\ call = NoCall
    /\ \E source \in PublicKeys, channel \in ShortChannelIds :
          call' = [op |-> "get_channel", source |-> source, channel |-> channel,
                   pre |-> graph, ret |-> GetChannel(graph, source, channel)]
    /\ UNCHANGED <<graph, now, jobcall, ledgerVars, concVars, registryVars>>

\* the call returns: its arguments and result are dropped
Return ==
    /\ call # NoCall
    /\ call' = NoCall
    /\ UNCHANGED <<graph, now, jobcall, ledgerVars, concVars, registryVars>>

Next ==
    \/ Tick
    \/ UpdateCall
    \/ RefreshCall
    \/ EdgesCall
    \/ GetChannelCall
    \/ Return

Spec == Init /\ [][Next]_vars

\* LnGraph derives Deserialize and its map is a public field: a graph read back
\* from disk may hold what update never builds, two edges with one id under a node
LoadedGraphs ==
    { LnGraphNew,
      (1 :> << DirectedChannelNew(Channel(1, 1, 8, 0, Some(2), 1), StartTime),
               DirectedChannelNew(Channel(1, 1, 8, 0, Some(6), 1), StartTime) >>) }

InitLoaded ==
    /\ graph \in LoadedGraphs
    /\ now = StartTime
    /\ call = NoCall
    /\ jobcall = NoCall
    /\ LedgerInit
    /\ ConcInit
    /\ RegistryInit

SpecLoaded == InitLoaded /\ [][Next]_vars

(***************************************************************************)
(* The job model (src/src/lib.rs).                                         *)
(***************************************************************************)
\* target_cap: the margin below the reserve that triggers the clamp
ReserveMargin == 1000
\* target_cap: the margin the clamp leaves
ClampMargin == 2000

\* SatDirection
Directions == {"Pull", "Push"}

\* an f64 ratio in [0, 1], as numerator and denominator
Ratios == { <<0, 1>>, <<1, 4>>, <<1, 2>>, <<3, 5>>, <<3, 4>>, <<1, 1>> }

\* the fields of Job that is_balanced and target_cap read
Jobs == [sat_direction : Directions, target : {None} \cup { Some(r) : r \in Ratios }]

Totals == {1000000, 2500, 1500}
Reserves == {0, 1000, 10000}
LocalShares == {0, 750, 500000, 600000, 1000000}

Optional(S) == {None} \cup { Some(v) : v \in S }

\* the fields of ListpeerchannelsChannels that the job model reads; a channel
\* holds no more than its total on either side or in either reserve
PeerChannels ==
    { c \in [total_msat : Optional(Totals), to_us_msat : Optional(LocalShares),
             their_reserve_msat : Optional(Reserves),
             our_reserve_msat : Optional(Reserves)] :
        IsSome(c.total_msat) =>
            \A f \in {c.to_us_msat, c.their_reserve_msat, c.our_reserve_msat} :
                IsSome(f) => Unwrap(f) <= Unwrap(c.total_msat) }

\* (total_msat as f64 * target) as u64, exact for these ratios and totals
MulF64(total, ratio) == (total * ratio[1]) \div ratio[2]

Panic == [panicked |-> TRUE, value |-> 0]
Value(v) == [panicked |-> FALSE, value |-> v]

\* a - b on u64: a panic with overflow checks, a wrap without
Sub(a, b, overflow_checks) ==
    IF a < b /\ overflow_checks THEN Panic ELSE Value(WrappingSub(a, b))

\* a target that takes a missing reserve for zero
TargetCapDefaultReserve(job, channel, overflow_checks) ==
    IF channel.total_msat = None
    THEN Panic
    ELSE LET target == UnwrapOr(job.target, <<1, 2>>)
             total_msat == Unwrap(channel.total_msat)
             reserve == IF job.sat_direction = "Pull"
                        THEN UnwrapOr(channel.their_reserve_msat, 0)
                        ELSE UnwrapOr(channel.our_reserve_msat, 0)
             target_cap == MulF64(total_msat, target)
             free == Sub(total_msat, reserve, overflow_checks)
             limit == IF free.panicked THEN Panic
                      ELSE Sub(free.value, ReserveMargin, overflow_checks)
         IN IF limit.panicked THEN Panic
            ELSE IF target_cap >= limit.value
                 THEN Sub(free.value, ClampMargin, overflow_checks)
                 ELSE Value(target_cap)

\* Job::target_cap
TargetCap(job, channel, overflow_checks) ==
    IF \/ channel.total_msat = None
       \/ channel.their_reserve_msat = None
       \/ channel.our_reserve_msat = None
    THEN Panic
    ELSE LET target == UnwrapOr(job.target, <<1, 2>>)
             total_msat == Unwrap(channel.total_msat)
             reserve == IF job.sat_direction = "Pull"
                        THEN Unwrap(channel.their_reserve_msat)
                        ELSE Unwrap(channel.our_reserve_msat)
             target_cap == MulF64(total_msat, target)
             free == Sub(total_msat, reserve, overflow_checks)
             limit == IF free.panicked THEN Panic
                      ELSE Sub(free.value, ReserveMargin, overflow_checks)
         IN IF limit.panicked THEN Panic
            ELSE IF target_cap >= limit.value
                 THEN Sub(free.value, ClampMargin, overflow_checks)
                 ELSE Value(target_cap)

\* a balance test with the directions swapped
IsBalancedSwapped(job, channel, overflow_checks) ==
    LET target_cap == TargetCap(job, channel, overflow_checks) IN
    IF target_cap.panicked \/ channel.total_msat = None \/ channel.to_us_msat = None
    THEN Panic
    ELSE LET channel_msat == Unwrap(channel.total_msat)
             to_us_msat == Unwrap(channel.to_us_msat)
             rest == Sub(channel_msat, to_us_msat, overflow_checks)
         IN IF job.sat_direction = "Push"
            THEN Value(to_us_msat >= target_cap.value)
            ELSE IF rest.panicked THEN Panic
                 ELSE Value(rest.value >= target_cap.value)

\* Job::is_balanced
IsBalanced(job, channel, overflow_checks) ==
    LET target_cap == TargetCap(job, channel, overflow_checks) IN
    IF target_cap.panicked \/ channel.total_msat = None \/ channel.to_us_msat = None
    THEN Panic
    ELSE LET channel_msat == Unwrap(channel.total_msat)
             to_us_msat == Unwrap(channel.to_us_msat)
             rest == Sub(channel_msat, to_us_msat, overflow_checks)
         IN IF job.sat_direction = "Pull"
            THEN Value(to_us_msat >= target_cap.value)
            ELSE IF rest.panicked THEN Panic
                 ELSE Value(rest.value >= target_cap.value)

\* job.target_cap(channel)
TargetCapCall ==
    /\ jobcall = NoCall
    /\ \E job \in Jobs, channel \in PeerChannels, overflow_checks \in BOOLEAN :
          jobcall' = [op |-> "target_cap", job |-> job, channel |-> channel,
                      overflow_checks |-> overflow_checks,
                      ret |-> TargetCap(job, channel, overflow_checks)]
    /\ UNCHANGED <<graph, now, call, ledgerVars, concVars, registryVars>>

\* job.is_balanced(channel, chan_id)
IsBalancedCall ==
    /\ jobcall = NoCall
    /\ \E job \in Jobs, channel \in PeerChannels, overflow_checks \in BOOLEAN :
          jobcall' = [op |-> "is_balanced", job |-> job, channel |-> channel,
                      overflow_checks |-> overflow_checks,
                      ret |-> IsBalanced(job, channel, overflow_checks)]
    /\ UNCHANGED <<graph, now, call, ledgerVars, concVars, registryVars>>

\* the call returns
JobReturn ==
    /\ jobcall # NoCall
    /\ jobcall' = NoCall
    /\ UNCHANGED <<graph, now, call, ledgerVars, concVars, registryVars>>

NextJob ==
    \/ TargetCapCall
    \/ IsBalancedCall
    \/ JobReturn

SpecJob == Init /\ [][NextJob]_vars

(***************************************************************************)
(* The liquidity graph: claims.                                            *)
(***************************************************************************)
Positions(channels, scid) ==
    { i \in 1..Len(channels) : channels[i].channel.short_channel_id = scid }

\* C1: after update(S) the graph's nodes are exactly the nodes of S, and under
\* every node the short channel ids of its edges are exactly those S lists for it.
C1_UpdateMatchesSnapshot ==
    call.op = "update" =>
        /\ DOMAIN graph = DOMAIN call.new_graph
        /\ \A n \in DOMAIN call.new_graph : Ids(graph[n]) = Ids(call.new_graph[n])

\* C1 witness: an update has dropped a node and, under a node it kept, an edge,
\* and has added an edge that was not there.
C1_Witness ==
    /\ call.op = "update"
    /\ \E n \in DOMAIN call.pre : n \notin DOMAIN graph
    /\ \E n \in DOMAIN call.pre \cap DOMAIN graph :
          /\ Ids(call.pre[n]) \ Ids(graph[n]) # {}
          /\ Ids(graph[n]) \ Ids(call.pre[n]) # {}

\* the edge of `channels` with that id (the first one)
EdgeOf(channels, scid) == channels[Find(channels, scid)]

\* C2, as claimed: an update that meets an existing edge (listed once in S)
\* replaces its metadata, and resets liquidity and timestamp to the snapshot
\* edge's if and only if the htlc maximum (present or absent) or the fee rate
\* differs; otherwise it leaves both alone.
C2_ResetIffPolicyDiffers ==
    call.op = "update" =>
        \A n \in DOMAIN call.new_graph \cap DOMAIN call.pre :
            \A k \in 1..Len(call.new_graph[n]) :
                LET new == call.new_graph[n][k]
                    scid == new.channel.short_channel_id
                IN (/\ Cardinality(Positions(call.new_graph[n], scid)) = 1
                    /\ Positions(call.pre[n], scid) # {})
                   => LET old == EdgeOf(call.pre[n], scid)
                          cur == EdgeOf(graph[n], scid)
                      IN /\ cur.channel = new.channel
                         /\ IF \/ old.channel.htlc_maximum_msat # new.channel.htlc_maximum_msat
                               \/ old.channel.fee_per_millionth # new.channel.fee_per_millionth
                            THEN cur.liquidity = new.liquidity /\ cur.timestamp = new.timestamp
                            ELSE cur.liquidity = old.liquidity /\ cur.timestamp = old.timestamp

\* C2, as the code has it: the htlc maximum counts only when it is present on
\* both sides; an htlc maximum that appears or disappears resets nothing.
C2_ResetIffBothPresentDiffer ==
    call.op = "update" =>
        \A n \in DOMAIN call.new_graph \cap DOMAIN call.pre :
            \A k \in 1..Len(call.new_graph[n]) :
                LET new == call.new_graph[n][k]
                    scid == new.channel.short_channel_id
                IN (/\ Cardinality(Positions(call.new_graph[n], scid)) = 1
                    /\ Positions(call.pre[n], scid) # {})
                   => LET old == EdgeOf(call.pre[n], scid)
                          cur == EdgeOf(graph[n], scid)
                          omax == old.channel.htlc_maximum_msat
                          nmax == new.channel.htlc_maximum_msat
                      IN /\ cur.channel = new.channel
                         /\ IF \/ (omax # {} /\ nmax # {} /\ omax # nmax)
                               \/ old.channel.fee_per_millionth # new.channel.fee_per_millionth
                            THEN cur.liquidity = new.liquidity /\ cur.timestamp = new.timestamp
                            ELSE cur.liquidity = old.liquidity /\ cur.timestamp = old.timestamp

\* C3, as claimed: a second update with the same snapshot changes nothing.
C3_UpdateIdempotent ==
    call.op = "update" => Update(graph, call.new_graph) = graph

\* C3 holds of the snapshots that list no id more than twice under a node.
C3_IdempotentUpToTwo ==
    (/\ call.op = "update"
     /\ \A n \in DOMAIN call.new_graph : \A s \in ShortChannelIds :
            Cardinality(Positions(call.new_graph[n], s)) <= 2)
    => Update(graph, call.new_graph) = graph

\* C4: under every node, no two edges carry the same short channel id.
C4_OneEdgePerId ==
    \A n \in DOMAIN graph : \A i, j \in 1..Len(graph[n]) :
        i # j => graph[n][i].channel.short_channel_id # graph[n][j].channel.short_channel_id

\* C4 witness: an update whose snapshot lists an id twice under one node has run
\* on a graph that already held that edge.
C4_Witness ==
    /\ call.op = "update"
    /\ \E n \in DOMAIN call.new_graph \cap DOMAIN call.pre : \E s \in ShortChannelIds :
          /\ Cardinality(Positions(call.new_graph[n], s)) >= 2
          /\ Positions(call.pre[n], s) # {}
          /\ Len(graph[n]) >= 2

\* C5, as claimed: refresh_liquidity(interval) resets exactly the edges whose age
\* is strictly greater than interval * 60 seconds, and changes nothing else.
C5_ResetsExactlyOlder ==
    call.op = "refresh_liquidity" =>
        /\ DOMAIN graph = DOMAIN call.pre
        /\ \A n \in DOMAIN call.pre :
              /\ Len(graph[n]) = Len(call.pre[n])
              /\ \A i \in 1..Len(call.pre[n]) :
                    LET old == call.pre[n][i]
                        cur == graph[n][i]
                    IN /\ cur.channel = old.channel
                       /\ IF now - old.timestamp > call.interval * 60
                          THEN /\ cur.liquidity =
                                    UnwrapOr(old.channel.htlc_maximum_msat,
                                             old.channel.amount_msat) \div 2
                               /\ cur.timestamp = now
                          ELSE /\ cur.liquidity = old.liquidity
                               /\ cur.timestamp = old.timestamp

\* C5 with `at least` for `strictly greater` holds of the calls whose cutoff
\* `now - interval * 60` does not underflow.
C5_ResetsAtLeastAsOld ==
    (call.op = "refresh_liquidity" /\ call.interval * 60 <= now) =>
        /\ DOMAIN graph = DOMAIN call.pre
        /\ \A n \in DOMAIN call.pre :
              /\ Len(graph[n]) = Len(call.pre[n])
              /\ \A i \in 1..Len(call.pre[n]) :
                    LET old == call.pre[n][i]
                        cur == graph[n][i]
                    IN /\ cur.channel = old.channel
                       /\ IF now - old.timestamp >= call.interval * 60
                          THEN /\ cur.liquidity =
                                    UnwrapOr(old.channel.htlc_maximum_msat,
                                             old.channel.amount_msat) \div 2
                               /\ cur.timestamp = now
                          ELSE /\ cur.liquidity = old.liquidity
                               /\ cur.timestamp = old.timestamp

\* C5, the part an underflow alone breaks: an edge younger than the interval
\* keeps its liquidity and timestamp.
C5_YoungerKept ==
    call.op = "refresh_liquidity" =>
        \A n \in DOMAIN call.pre \cap DOMAIN graph :
            \A i \in 1..Len(call.pre[n]) :
                (now - call.pre[n][i].timestamp < call.interval * 60 /\ i <= Len(graph[n]))
                    => graph[n][i] = call.pre[n][i]

Elements(vec) == { vec[k] : k \in 1..Len(vec) }

\* the conditions of C6 on one edge e, for the arguments of the call
C6_Admits(e) ==
    LET id == e.channel.short_channel_id
        top == IF e.channel.htlc_maximum_msat = {}
               THEN e.channel.amount_msat
               ELSE Unwrap(e.channel.htlc_maximum_msat)
    IN /\ id \notin call.exclude
       /\ id \notin DOMAIN call.tempbans
       /\ e.liquidity >= call.amount
       /\ e.channel.htlc_minimum_msat <= call.amount
       /\ call.amount <= top
       /\ e.channel.source \notin Elements(call.exclude_peers)
       /\ e.channel.destination \notin Elements(call.exclude_peers)
       /\ (call.mypubkey \in {e.channel.source, e.channel.destination}
              => id \in Elements(call.candidatelist))

\* C6: edges(..) returns, in adjacency order, exactly the outgoing edges of the
\* node that satisfy every condition, and nothing for an unknown node.
C6_EdgesExact ==
    call.op = "edges" =>
        LET adj == IF call.node \in DOMAIN graph THEN graph[call.node] ELSE << >>
            keep == { i \in 1..Len(adj) : C6_Admits(adj[i]) }
        IN /\ Len(call.ret) = Cardinality(keep)
           /\ \A k \in 1..Len(call.ret) :
                \E i \in keep : /\ call.ret[k] = adj[i]
                                /\ Cardinality({ j \in keep : j < i }) = k - 1
           /\ \A k \in 1..Len(call.ret) :
                /\ call.ret[k].liquidity >= call.amount
                /\ call.ret[k].channel.source \notin Elements(call.exclude_peers)
                /\ call.ret[k].channel.destination \notin Elements(call.exclude_peers)

\* C6 witness: a call that returned one edge of a node and left out another whose
\* believed liquidity is below the amount.
C6_Witness ==
    /\ call.op = "edges"
    /\ call.node \in DOMAIN graph
    /\ Len(call.ret) >= 1
    /\ \E i \in 1..Len(graph[call.node]) :
          /\ graph[call.node][i].liquidity < call.amount
          /\ \A k \in 1..Len(call.ret) : call.ret[k] # graph[call.node][i]

Local(e) == call.mypubkey \in {e.channel.source, e.channel.destination}

\* C7: a returned edge that touches the local node has its id in candidatelist;
\* an edge that does not touch it is returned or not regardless of candidatelist.
C7_CandidatesOnlyLocal ==
    call.op = "edges" =>
        /\ \A k \in 1..Len(call.ret) :
              Local(call.ret[k]) =>
                  call.ret[k].channel.short_channel_id \in Elements(call.candidatelist)
        /\ \A c \in CandidateLists :
              SelectSeq(Edges(graph, call.mypubkey, call.node, call.exclude,
                              call.exclude_peers, call.amount, c, call.tempbans),
                        LAMBDA e : ~Local(e))
              = SelectSeq(call.ret, LAMBDA e : ~Local(e))

\* C7 witness: with an empty candidatelist, a call left out an edge whose
\* destination is the local node and returned one that does not touch it.
C7_Witness ==
    /\ call.op = "edges"
    /\ call.candidatelist = << >>
    /\ call.node \in DOMAIN graph
    /\ call.node # call.mypubkey
    /\ \E i \in 1..Len(graph[call.node]) :
          /\ graph[call.node][i].channel.destination = call.mypubkey
          /\ \A k \in 1..Len(call.ret) : call.ret[k] # graph[call.node][i]
    /\ \E k \in 1..Len(call.ret) : ~Local(call.ret[k])

\* C8: get_channel returns the stored edge exactly when the node is in the graph
\* and exactly one of its edges has the id, an error otherwise, and leaves the
\* graph as it was.
C8_GetChannelExact ==
    call.op = "get_channel" =>
        LET hits == IF call.source \in DOMAIN graph
                    THEN Positions(graph[call.source], call.channel)
                    ELSE {}
        IN /\ call.ret.ok <=> Cardinality(hits) = 1
           /\ call.ret.ok => \A i \in hits : call.ret.value = graph[call.source][i]
           /\ graph = call.pre

\* C8 witness: a lookup failed on a node that holds two edges with the id.
C8_Witness ==
    /\ call.op = "get_channel"
    /\ call.source \in DOMAIN graph
    /\ Cardinality(Positions(graph[call.source], call.channel)) = 2
    /\ ~call.ret.ok

(***************************************************************************)
(* The job model: claims.                                                  *)
(***************************************************************************)
Populated(c) ==
    /\ c.total_msat # {}
    /\ c.to_us_msat # {}
    /\ c.their_reserve_msat # {}
    /\ c.our_reserve_msat # {}

\* the reserve the job's direction looks at
RelevantReserve(job, c) ==
    IF job.sat_direction = "Pull"
    THEN Unwrap(c.their_reserve_msat)
    ELSE Unwrap(c.our_reserve_msat)

\* floor(total * ratio), the ratio defaulting to one half
RawTarget(job, c) ==
    LET r == IF job.target = {} THEN <<1, 2>> ELSE Unwrap(job.target)
    IN (Unwrap(c.total_msat) * r[1]) \div r[2]

\* C9, as claimed: for every channel and ratio target_cap returns
\* floor(total * ratio), unless that is at least total - reserve - 1000, and
\* then exactly total - reserve - 2000; so the target respects the margin.
C9_TargetCapClamped ==
    (jobcall.op = "target_cap" /\ Populated(jobcall.channel)) =>
        LET total == Unwrap(jobcall.channel.total_msat)
            reserve == RelevantReserve(jobcall.job, jobcall.channel)
            raw == RawTarget(jobcall.job, jobcall.channel)
        IN /\ ~jobcall.ret.panicked
           /\ IF raw >= total - reserve - 1000
              THEN /\ jobcall.ret.value = total - reserve - 2000
                   /\ jobcall.ret.value <= total - reserve - 2000
              ELSE /\ jobcall.ret.value = raw
                   /\ jobcall.ret.value < total - reserve - 1000

\* C9 holds of the channels with at least 2000 above the relevant reserve.
C9_ClampedAboveMargin ==
    (/\ jobcall.op = "target_cap"
     /\ Populated(jobcall.channel)
     /\ Unwrap(jobcall.channel.total_msat)
            - RelevantReserve(jobcall.job, jobcall.channel) >= 2000)
    => LET total == Unwrap(jobcall.channel.total_msat)
           reserve == RelevantReserve(jobcall.job, jobcall.channel)
           raw == RawTarget(jobcall.job, jobcall.channel)
       IN /\ ~jobcall.ret.panicked
          /\ IF raw >= total - reserve - 1000
             THEN jobcall.ret.value = total - reserve - 2000
             ELSE jobcall.ret.value = raw

\* C10: when is_balanced returns, it returns whether the local share (Pull) or
\* the rest of the channel (Push) is at least target_cap; and for Pull a larger
\* local share never turns a balanced channel into an unbalanced one.
C10_BalancedIffAtTarget ==
    (jobcall.op = "is_balanced" /\ ~jobcall.ret.panicked) =>
        LET job == jobcall.job
            c == jobcall.channel
            cap == TargetCap(job, c, jobcall.overflow_checks)
            total == Unwrap(c.total_msat)
            local == Unwrap(c.to_us_msat)
        IN /\ ~cap.panicked
           /\ job.sat_direction = "Pull" => (jobcall.ret.value <=> local >= cap.value)
           /\ job.sat_direction = "Push" => (jobcall.ret.value <=> total - local >= cap.value)
           /\ (job.sat_direction = "Pull" /\ jobcall.ret.value) =>
                 \A more \in LocalShares :
                     (more >= local /\ more <= total) =>
                         IsBalanced(job, [c EXCEPT !.to_us_msat = Some(more)],
                                    jobcall.overflow_checks) = Value(TRUE)
           /\ (/\ job.sat_direction = "Pull" /\ job.target = Some(<<3, 5>>)
               /\ total = 1000000 /\ Unwrap(c.their_reserve_msat) = 10000)
              => /\ local = 500000 => ~jobcall.ret.value
                 /\ local = 600000 => jobcall.ret.value

\* C10 witness: the scenario's Pull job (target 0.6, total 1,000,000) has found
\* a local share of 600,000 balanced.
C10_Witness ==
    /\ jobcall.op = "is_balanced"
    /\ jobcall.job = [sat_direction |-> "Pull", target |-> Some(<<3, 5>>)]
    /\ jobcall.channel.total_msat = Some(1000000)
    /\ jobcall.channel.to_us_msat = Some(600000)
    /\ jobcall.ret = Value(TRUE)

\* C11, as claimed: is_balanced panics whenever the snapshot lacks the total or
\* the local balance, and returns a boolean whenever it has both.
C11_PanicsIffBalanceMissing ==
    jobcall.op = "is_balanced" =>
        (jobcall.ret.panicked
            <=> (jobcall.channel.total_msat = {} \/ jobcall.channel.to_us_msat = {}))

\* C11, amended: is_balanced panics whenever the snapshot lacks the total, the
\* local balance or either reserve, and returns a boolean only when it has all
\* four; it never defaults a missing field.
C11_PanicsWhenFieldMissing ==
    jobcall.op = "is_balanced" =>
        /\ ~Populated(jobcall.channel) => jobcall.ret.panicked
        /\ ~jobcall.ret.panicked => jobcall.ret.value \in BOOLEAN

\* C11 witness: a call on a snapshot with total and local balance but without
\* the reserve of the other direction has panicked.
C11_Witness ==
    /\ jobcall.op = "is_balanced"
    /\ jobcall.job.sat_direction = "Pull"
    /\ jobcall.channel.total_msat # {}
    /\ jobcall.channel.to_us_msat # {}
    /\ jobcall.channel.their_reserve_msat # {}
    /\ jobcall.channel.our_reserve_msat = {}
    /\ jobcall.ret.panicked

\* C11, the other half as the code has it: with all four fields present and at
\* least 2000 above the relevant reserve the call returns a boolean.
C11_ReturnsWhenPopulated ==
    (/\ jobcall.op = "is_balanced"
     /\ Populated(jobcall.channel)
     /\ Unwrap(jobcall.channel.total_msat)
            - RelevantReserve(jobcall.job, jobcall.channel) >= 2000)
    => (~jobcall.ret.panicked /\ jobcall.ret.value \in BOOLEAN)

(***************************************************************************)
(* The rebalance ledger (src/src/model.rs, SuccessReb and FailureReb).     *)
(* A file is a sequence of tokens: "{", "}", field names, field values and *)
(* "\n".                                                                   *)
(***************************************************************************)
\* the number of write_to_file calls of a run
MaxWrites == 2

\* the fields of the two records, in declaration order
SuccessKeys == <<"amount_msat", "fee_ppm", "channel_partner", "hops", "completed_at">>
FailureKeys ==
    <<"amount_msat", "failure_reason", "failure_node", "channel_partner", "hops", "created_at">>
\* the fields that hold a string
StringKeys == {"failure_reason"}

SuccessRebs ==
    [amount_msat : {1, 2}, fee_ppm : {3}, channel_partner : {2}, hops : {2},
     completed_at : {6}]
FailureRebs ==
    [amount_msat : {1}, failure_reason : {"timeout", "no_route"}, failure_node : {3},
     channel_partner : {2}, hops : {2}, created_at : {6}]

KeysOf(log) == IF log[2] = SUCCESSES_SUFFIX THEN SuccessKeys ELSE FailureKeys
RecordsOf(log) == IF log[2] = SUCCESSES_SUFFIX THEN SuccessRebs ELSE FailureRebs

\* the decimal form of a number
Digits == <<"0", "1", "2", "3", "4", "5", "6", "7", "8", "9">>
Decimal(n) == Digits[n + 1]
IsNumber(s) == \E i \in DOMAIN Digits : Digits[i] = s
FromString(s) == (CHOOSE i \in DOMAIN Digits : Digits[i] = s) - 1

\* the tokens that are not the text of a string
Structural == {"{", "}", "\n"}
IsString(s) == s \notin Structural /\ ~IsNumber(s)

ToToken(key, v) == IF key \in StringKeys THEN v ELSE Decimal(v)
IsToken(key, s) == IF key \in StringKeys THEN IsString(s) ELSE IsNumber(s)
FromToken(key, s) == IF key \in StringKeys THEN s ELSE FromString(s)

\* serde_json::to_string of a record with the fields keys
ToStringJson(rec, keys) ==
    <<"{">>
    \o [i \in 1..(2 * Len(keys)) |->
            IF i % 2 = 1 THEN keys[(i + 1) \div 2]
            ELSE ToToken(keys[i \div 2], rec[keys[i \div 2]])]
    \o <<"}">>

\* format!("{}\n", serialized)
Formatted(rec, keys) == ToStringJson(rec, keys) \o <<"\n">>

\* serde_json::from_str of one line: Ok only for a whole object with the
\* fields keys
FromStr(line, keys) ==
    IF /\ Len(line) = 2 * Len(keys) + 2
       /\ line[1] = "{"
       /\ line[Len(line)] = "}"
       /\ \A k \in DOMAIN keys : line[2 * k] = keys[k] /\ IsToken(keys[k], line[2 * k + 1])
    THEN [ok |-> TRUE,
          value |-> [key \in {keys[k] : k \in DOMAIN keys} |->
                        FromToken(key, line[2 * (CHOOSE k \in DOMAIN keys : keys[k] = key) + 1])]]
    ELSE [ok |-> FALSE, err |-> "parse"]

\* str::lines: the text between newlines, the text after the last newline
\* when there is some
RECURSIVE Lines(_)
Lines(contents) ==
    IF contents = << >> THEN << >>
    ELSE IF \E i \in DOMAIN contents : contents[i] = "\n"
         THEN LET i == CHOOSE i \in DOMAIN contents :
                           /\ contents[i] = "\n"
                           /\ \A j \in 1..(i - 1) : contents[j] # "\n"
              IN  <<SubSeq(contents, 1, i - 1)>>
                  \o Lines(SubSeq(contents, i + 1, Len(contents)))
         ELSE <<contents>>

ReadFromFileBestEffort(fs, log) ==
    IF log \notin DOMAIN fs THEN [ok |-> FALSE, err |-> "io"]
    ELSE LET lines == Lines(fs[log])
             parsed == [i \in DOMAIN lines |-> FromStr(lines[i], KeysOf(log))]
             Good(p) == p.ok
             good == SelectSeq(parsed, Good)
         IN  [ok |-> TRUE, value |-> [i \in DOMAIN good |-> good[i].value]]

\* read_from_file: the whole file, one record per line, or the first error
ReadFromFile(fs, log) ==
    IF log \notin DOMAIN fs THEN [ok |-> FALSE, err |-> "io"]
    ELSE LET lines == Lines(fs[log])
             parsed == [i \in DOMAIN lines |-> FromStr(lines[i], KeysOf(log))]
         IN  IF \E i \in DOMAIN parsed : ~parsed[i].ok
             THEN [ok |-> FALSE, err |-> "parse"]
             ELSE [ok |-> TRUE, value |-> [i \in DOMAIN parsed |-> parsed[i].value]]

\* OpenOptions::new().append(true).create(true).open(..)
OpenAppendCreate(fs, log) == IF log \in DOMAIN fs THEN fs ELSE fs @@ (log :> << >>)

RemoveAt(s, i) == SubSeq(s, 1, i - 1) \o SubSeq(s, i + 1, Len(s))

RECURSIVE SumLen(_, _)
SumLen(f, S) ==
    IF S = {} THEN 0
    ELSE LET x == CHOOSE x \in S : TRUE IN Len(f[x]) + SumLen(f, S \ {x})

\* write_to_file: serializes, opens the log (creating it), hands the line to
\* the file's blocking write and returns Ok; nothing waits for that write
\* (there is no flush)
WriteCall ==
    /\ ledgercall = NoCall
    /\ SumLen(written, Logs) < MaxWrites
    /\ \E log \in Logs : \E rec \in RecordsOf(log) :
        /\ files' = OpenAppendCreate(files, log)
        /\ pending' = Append(pending, [log |-> log, bytes |-> Formatted(rec, KeysOf(log))])
        /\ written' = [written EXCEPT ![log] = Append(@, rec)]
        /\ ledgercall' = [op |-> "write_to_file", log |-> log, record |-> rec,
                          ret |-> [ok |-> TRUE]]
    /\ UNCHANGED <<graph, now, call, jobcall, crashed, concVars, registryVars>>

\* the blocking pool runs one of the writes handed to it
BlockingWrite ==
    /\ \E i \in DOMAIN pending :
        /\ files' = [files EXCEPT ![pending[i].log] = @ \o pending[i].bytes]
        /\ pending' = RemoveAt(pending, i)
    /\ UNCHANGED <<graph, now, call, jobcall, written, crashed, ledgercall, concVars, registryVars>>

\* where a crash may cut a write: inside the record, or before its newline
TornLengths(bytes) == {3, Len(bytes) - 1}

\* the process dies and restarts: the writes not yet run are lost, one of
\* them may have reached the file in part
Crash ==
    /\ ~crashed
    /\ crashed' = TRUE
    /\ pending' = << >>
    /\ ledgercall' = NoCall
    /\ \/ files' = files
       \/ \E i \in DOMAIN pending : \E k \in TornLengths(pending[i].bytes) :
            files' = [files EXCEPT ![pending[i].log] = @ \o SubSeq(pending[i].bytes, 1, k)]
    /\ UNCHANGED <<graph, now, call, jobcall, written, concVars, registryVars>>

ReadCall ==
    /\ ledgercall = NoCall
    /\ \E log \in Logs :
        ledgercall' = [op |-> "read_from_file", log |-> log, pre |-> files,
                       flushed |-> (pending = << >>),
                       ret |-> ReadFromFile(files, log)]
    /\ UNCHANGED <<graph, now, call, jobcall, files, pending, written, crashed, concVars, registryVars>>

LedgerReturn ==
    /\ ledgercall # NoCall
    /\ ledgercall' = NoCall
    /\ UNCHANGED <<graph, now, call, jobcall, files, pending, written, crashed, concVars, registryVars>>

NextLedger ==
    \/ WriteCall
    \/ BlockingWrite
    \/ Crash
    \/ ReadCall
    \/ LedgerReturn

SpecLedger == Init /\ [][NextLedger]_vars

\* ledger files found on disk at start: none, a lone empty line, two records
\* with an empty line between them, a record without its newline
DiskStates ==
    LET s == <<1, SUCCESSES_SUFFIX>>
        f == <<1, FAILURES_SUFFIX>>
        a == CHOOSE rec \in SuccessRebs : rec.amount_msat = 1
        b == CHOOSE rec \in SuccessRebs : rec.amount_msat = 2
        c == CHOOSE rec \in FailureRebs : rec.failure_reason = "timeout"
    IN  { << >>,
          (s :> <<"\n">>),
          (s :> Formatted(a, SuccessKeys) \o <<"\n">> \o Formatted(b, SuccessKeys)),
          (f :> ToStringJson(c, FailureKeys)) }

InitLedgerDisk ==
    /\ graph = LnGraphNew
    /\ now = StartTime
    /\ call = NoCall
    /\ jobcall = NoCall
    /\ files \in DiskStates
    /\ pending = << >>
    /\ written = [l \in Logs |-> << >>]
    /\ crashed = FALSE
    /\ ledgercall = NoCall
    /\ ConcInit
    /\ RegistryInit

SpecLedgerDisk == InitLedgerDisk /\ [][NextLedger]_vars

(***************************************************************************)
(* Claims about the rebalance ledger.                                      *)
(***************************************************************************)
\* C12, as claimed: once write_to_file calls of a log have returned Ok, a
\* read_from_file of that log returns exactly their records, in write order,
\* whatever was written to the other logs in between.
C12_LedgerRoundTrip ==
    (ledgercall.op = "read_from_file" /\ ~crashed /\ written[ledgercall.log] # << >>) =>
        /\ ledgercall.ret.ok
        /\ ledgercall.ret.value = written[ledgercall.log]

Count(s, x) == Cardinality({i \in DOMAIN s : s[i] = x})

\* C12, what the code gives: once every write handed to the blocking pool has
\* run, the read returns the records written to that log and no others, each
\* field-for-field equal and as often as it was written.
C12_RoundTripWhenFlushed ==
    (/\ ledgercall.op = "read_from_file"
     /\ ~crashed
     /\ ledgercall.flushed
     /\ written[ledgercall.log] # << >>) =>
        /\ ledgercall.ret.ok
        /\ \A rec \in RecordsOf(ledgercall.log) :
                Count(ledgercall.ret.value, rec) = Count(written[ledgercall.log], rec)

IsPrefix(s, t) == Len(s) <= Len(t) /\ SubSeq(t, 1, Len(s)) = s
IsSuffix(s, t) == Len(s) <= Len(t) /\ SubSeq(t, Len(t) - Len(s) + 1, Len(t)) = s

\* C13, as claimed: when write_to_file returns Ok, the serialized record and
\* its newline are the end of the log file.
C13_WriteReturnsFlushed ==
    ledgercall.op = "write_to_file" =>
        IsSuffix(Formatted(ledgercall.record, KeysOf(ledgercall.log)), files[ledgercall.log])

\* C13, what the code gives: no step, a crash included, alters or truncates
\* what a log file already holds.
C13_AppendOnly ==
    [][\A log \in DOMAIN files : log \in DOMAIN files' /\ IsPrefix(files[log], files'[log])]_vars

\* C14: read_from_file leaves the files as they are; on a missing file or a
\* file with a line that does not parse (an empty line included) it returns
\* an error and no list; otherwise it returns the records of all lines, one
\* per line, in file order.
C14_ReadAllOrNothing ==
    [][(ledgercall = NoCall /\ ledgercall'.op = "read_from_file") =>
        /\ files' = files
        /\ IF ledgercall'.log \notin DOMAIN files
           THEN ledgercall'.ret = [ok |-> FALSE, err |-> "io"]
           ELSE LET lines == Lines(files[ledgercall'.log])
                    keys == KeysOf(ledgercall'.log)
                IN  IF \A i \in DOMAIN lines : FromStr(lines[i], keys).ok
                    THEN /\ ledgercall'.ret.ok
                         /\ Len(ledgercall'.ret.value) = Len(lines)
                         /\ \A i \in DOMAIN lines :
                                ledgercall'.ret.value[i] = FromStr(lines[i], keys).value
                    ELSE ledgercall'.ret = [ok |-> FALSE, err |-> "parse"]]_vars

\* a read fails on a file that has an empty line between two well-formed
\* records
C14_Witness ==
    /\ ledgercall.op = "read_from_file"
    /\ ledgercall.log \in DOMAIN ledgercall.pre
    /\ ~ledgercall.ret.ok
    /\ LET lines == Lines(ledgercall.pre[ledgercall.log])
       IN  /\ \E i \in DOMAIN lines : lines[i] = << >>
           /\ \E i \in DOMAIN lines : FromStr(lines[i], KeysOf(ledgercall.log)).ok

\* a read fails on a line torn by a crash, after a well-formed record
C14_TornLineRead ==
    /\ ledgercall.op = "read_from_file"
    /\ crashed
    /\ ledgercall.log \in DOMAIN ledgercall.pre
    /\ ~ledgercall.ret.ok
    /\ LET lines == Lines(ledgercall.pre[ledgercall.log])
       IN  /\ Len(lines) > 1
           /\ FromStr(lines[1], KeysOf(ledgercall.log)).ok

(***************************************************************************)
(* The shared graph: PluginState.graph is an Arc<tokio::sync::Mutex<..>>,  *)
(* so update and refresh_liquidity (&mut self) and edges and get_channel   *)
(* (&self) are reached only through the guard that lock().await returns.   *)
(* update and refresh_liquidity are taken here one loop step at a time.    *)
(***************************************************************************)
\* the channel lists the refresh loop merges: a full snapshot, one where
\* node 2 and channel 2 have vanished and channel 1 has a new fee rate, one
\* with node 2 alone, an empty one
ConcLists ==
    { (1 :> <<Channel(1, 1, 8, 0, Some(2), 1), Channel(1, 2, 8, 0, None, 1)>>
        @@ 2 :> <<Channel(2, 1, 8, 0, Some(2), 1)>>),
      (1 :> <<Channel(1, 1, 8, 0, Some(2), 2)>>),
      (2 :> <<Channel(2, 1, 8, 0, Some(2), 1)>>),
      << >> }

\* the refresh intervals of the loop (minutes)
ConcIntervals == 0..1

Min(S) == CHOOSE n \in S : \A m \in S : n <= m

\* what a pass makes of the graph it started from
PassResult(p) ==
    IF p.op = "update" THEN Update(p.pre, p.new_graph)
    ELSE RefreshLiquidity(p.pre, p.t, p.cutoff)

\* the graph is in the middle of pass p
HalfDone(g, p) == p # NoCall /\ g # p.pre /\ g # PassResult(p)

AcquiredUnlocked(l) == TRUE

\* tokio::sync::Mutex::lock().await completes only while nobody holds the guard
Acquired(l) == l = "free"

\* the refresh loop locks the graph and calls update(new_graph)
UpdateBegin ==
    /\ Acquired(lock)
    /\ pass = NoCall
    /\ \E lists \in ConcLists :
        LET new_graph == SnapshotGraph(lists, now) IN
        pass' = [op |-> "update", new_graph |-> new_graph, pre |-> graph,
                 todo |-> DOMAIN new_graph, stage |-> "entry", k |-> 1]
    /\ lock' = "refresher"
    /\ UNCHANGED <<graph, now, call, jobcall, ledgerVars, worker, view, registryVars>>

\* update: self.graph.entry(new_node).or_default()
UpdateEntry ==
    /\ pass.op = "update" /\ pass.todo # {} /\ pass.stage = "entry"
    /\ LET n == Min(pass.todo) IN
        graph' = IF n \in DOMAIN graph THEN graph ELSE graph @@ (n :> << >>)
    /\ pass' = [pass EXCEPT !.stage = "retain"]
    /\ UNCHANGED <<now, call, jobcall, ledgerVars, lock, worker, view, registryVars>>

\* update: old_channels.retain(..)
UpdateRetain ==
    /\ pass.op = "update" /\ pass.todo # {} /\ pass.stage = "retain"
    /\ LET n == Min(pass.todo) IN
        graph' = [graph EXCEPT ![n] = Retain(@, pass.new_graph[n])]
    /\ pass' = [pass EXCEPT !.stage = "merge", !.k = 1]
    /\ UNCHANGED <<now, call, jobcall, ledgerVars, lock, worker, view, registryVars>>

\* update: one turn of the loop over new_channels
UpdateChannel ==
    /\ pass.op = "update" /\ pass.todo # {} /\ pass.stage = "merge"
    /\ LET n == Min(pass.todo) IN
        /\ pass.k <= Len(pass.new_graph[n])
        /\ graph' = [graph EXCEPT ![n] = MergeChannel(@, pass.new_graph[n][pass.k])]
    /\ pass' = [pass EXCEPT !.k = @ + 1]
    /\ UNCHANGED <<now, call, jobcall, ledgerVars, lock, worker, view, registryVars>>

\* update: the loop over the nodes of new_graph moves on
UpdateNextNode ==
    /\ pass.op = "update" /\ pass.todo # {} /\ pass.stage = "merge"
    /\ LET n == Min(pass.todo) IN
        /\ pass.k > Len(pass.new_graph[n])
        /\ pass' = [pass EXCEPT !.todo = @ \ {n}, !.stage = "entry"]
    /\ UNCHANGED <<graph, now, call, jobcall, ledgerVars, lock, worker, view, registryVars>>

\* update: self.graph.retain(..) over the nodes; update returns and the
\* refresh loop drops the guard
UpdateEnd ==
    /\ pass.op = "update" /\ pass.todo = {}
    /\ graph' = [n \in DOMAIN graph \cap DOMAIN pass.new_graph |-> graph[n]]
    /\ pass' = NoCall
    /\ lock' = "free"
    /\ UNCHANGED <<now, call, jobcall, ledgerVars, worker, view, registryVars>>

\* the refresh loop locks the graph and calls refresh_liquidity(interval)
RefreshBegin ==
    /\ Acquired(lock)
    /\ pass = NoCall
    /\ \E interval \in ConcIntervals :
        /\ ~Underflows(now, interval)
        /\ pass' = [op |-> "refresh_liquidity", pre |-> graph, todo |-> DOMAIN graph,
                    t |-> now, cutoff |-> now - interval * SecsPerMinute]
    /\ lock' = "refresher"
    /\ UNCHANGED <<graph, now, call, jobcall, ledgerVars, worker, view, registryVars>>

\* refresh_liquidity: one turn of the loop over the nodes
RefreshNode ==
    /\ pass.op = "refresh_liquidity" /\ pass.todo # {}
    /\ LET n == Min(pass.todo) IN
        /\ graph' = [graph EXCEPT ![n] =
                        [i \in 1..Len(@) |->
                            IF IsStale(@[i], pass.cutoff)
                            THEN ResetLiquidity(@[i], pass.t) ELSE @[i]]]
        /\ pass' = [pass EXCEPT !.todo = @ \ {n}]
    /\ UNCHANGED <<now, call, jobcall, ledgerVars, lock, worker, view, registryVars>>

\* refresh_liquidity returns and the refresh loop drops the guard
RefreshEnd ==
    /\ pass.op = "refresh_liquidity" /\ pass.todo = {}
    /\ pass' = NoCall
    /\ lock' = "free"
    /\ UNCHANGED <<graph, now, call, jobcall, ledgerVars, worker, view, registryVars>>

\* the clock advances between passes
ConcTick ==
    /\ pass = NoCall
    /\ now + SecsPerMinute <= MaxNow
    /\ now' = now + SecsPerMinute
    /\ UNCHANGED <<graph, call, jobcall, ledgerVars, concVars, registryVars>>

\* a job worker calls graph.lock()
WorkerLock(w) ==
    /\ worker[w].pc = "idle"
    /\ worker' = [worker EXCEPT ![w] = [pc |-> "waiting", torn |-> FALSE]]
    /\ UNCHANGED <<graph, now, call, jobcall, ledgerVars, lock, pass, view, registryVars>>

\* lock() is polled while the guard is held: the worker stays suspended
\* (torn: the graph was then in the middle of a pass)
WorkerPending(w) ==
    /\ worker[w].pc = "waiting"
    /\ ~Acquired(lock)
    /\ ~worker[w].torn
    /\ HalfDone(graph, pass)
    /\ worker' = [worker EXCEPT ![w].torn = TRUE]
    /\ UNCHANGED <<graph, now, call, jobcall, ledgerVars, lock, pass, view, registryVars>>

\* lock() completes: the worker holds the guard
WorkerAcquire(w) ==
    /\ worker[w].pc = "waiting"
    /\ Acquired(lock)
    /\ lock' = w
    /\ worker' = [worker EXCEPT ![w].pc = "locked"]
    /\ UNCHANGED <<graph, now, call, jobcall, ledgerVars, pass, view, registryVars>>

\* the worker reads through the guard: edges(..) or get_channel(..)
WorkerRead(w) ==
    /\ worker[w].pc = "locked"
    /\ view = NoCall
    /\ \/ view' = [op |-> "edges", task |-> w, seen |-> graph, pass |-> pass,
                   torn |-> worker[w].torn,
                   ret |-> Edges(graph, 3, 1, {}, << >>, 1, << >>, << >>)]
       \/ \E channel \in ShortChannelIds :
            view' = [op |-> "get_channel", task |-> w, seen |-> graph, pass |-> pass,
                     torn |-> worker[w].torn,
                     ret |-> GetChannel(graph, 1, channel)]
    /\ UNCHANGED <<graph, now, call, jobcall, ledgerVars, lock, pass, worker, registryVars>>

\* the worker drops the guard
WorkerUnlock(w) ==
    /\ worker[w].pc = "locked"
    /\ view # NoCall /\ view.task = w
    /\ view' = NoCall
    /\ lock' = "free"
    /\ worker' = [worker EXCEPT ![w] = [pc |-> "idle", torn |-> FALSE]]
    /\ UNCHANGED <<graph, now, call, jobcall, ledgerVars, pass, registryVars>>

NextConc ==
    \/ UpdateBegin
    \/ UpdateEntry
    \/ UpdateRetain
    \/ UpdateChannel
    \/ UpdateNextNode
    \/ UpdateEnd
    \/ RefreshBegin
    \/ RefreshNode
    \/ RefreshEnd
    \/ ConcTick
    \/ \E w \in Workers : WorkerLock(w)
    \/ \E w \in Workers : WorkerPending(w)
    \/ \E w \in Workers : WorkerAcquire(w)
    \/ \E w \in Workers : WorkerRead(w)
    \/ \E w \in Workers : WorkerUnlock(w)

SpecConc == Init /\ [][NextConc]_vars

(***************************************************************************)
(* Claims about the shared graph.                                          *)
(***************************************************************************)
\* C15: every read of a job worker sees the graph as it is between passes, or
\* as the pass under way found it, or as that pass leaves it: never a graph in
\* the middle of a merge or of a decay pass.
C15_ReadsSeeWholePasses ==
    view # NoCall => ~HalfDone(view.seen, view.pass)

\* a worker asked for the lock while a merge had left the graph half-merged,
\* and then read the merged graph
C15_Witness ==
    /\ view # NoCall
    /\ view.torn
    /\ view.pass = NoCall
    /\ view.seen # LnGraphNew

\* the loop steps of update compose to LnGraph::update, those of
\* refresh_liquidity to LnGraph::refresh_liquidity
C15_StepsComposeToPass ==
    [][(pass # NoCall /\ pass' = NoCall) => graph' = PassResult(pass)]_vars

\* the graph does pass through half-merged states: a node inserted empty
C15_NodeInsertedEmpty ==
    /\ pass # NoCall /\ pass.op = "update"
    /\ \E n \in DOMAIN graph : n \notin DOMAIN pass.pre /\ graph[n] = << >>
                                /\ pass.new_graph[n] # << >>

(***************************************************************************)
(* JobState (src/src/model.rs): one entry of PluginState.job_state. Each   *)
(* method runs under the registry's Mutex, so a call is one step.          *)
(***************************************************************************)
JobIds == 0..2

StateChangeRebuilds(js, latest_state) == JobStateNew(latest_state, js.id)

\* JobState::statechange
StateChange(js, latest_state) == [js EXCEPT !.latest_state = latest_state]

\* JobState::state
State(js) == js.latest_state

StopMarksStopping(js) == [js EXCEPT !.should_stop = TRUE, !.latest_state = "Stopping"]

\* JobState::stop
Stop(js) == [js EXCEPT !.should_stop = TRUE]

\* JobState::should_stop
ShouldStop(js) == js.should_stop

\* JobState::is_active
IsActive(js) == js.active

SetActiveResets(js, active) == [js EXCEPT !.active = active, !.should_stop = FALSE]

\* JobState::set_active
SetActive(js, active) == [js EXCEPT !.active = active]

\* JobState::id
Id(js) == js.id

\* a worker starts: the entry is replaced by JobState::new(state, id)
NewCall ==
    /\ statecall = NoCall
    /\ \E latest_state \in JobMessages, id \in JobIds :
        /\ job_state' = JobStateNew(latest_state, id)
        /\ statecall' = [op |-> "new", latest_state |-> latest_state, id |-> id,
                         pre |-> job_state]
        /\ reported' = latest_state
    /\ stop_requested' = FALSE
    /\ UNCHANGED <<graph, now, call, jobcall, ledgerVars, concVars>>

\* the entry is removed: lookups see JobState::missing()
MissingCall ==
    /\ statecall = NoCall
    /\ job_state' = JobStateMissing
    /\ statecall' = [op |-> "missing", pre |-> job_state]
    /\ reported' = "NoJob"
    /\ stop_requested' = FALSE
    /\ UNCHANGED <<graph, now, call, jobcall, ledgerVars, concVars>>

\* the worker reports a state
StateChangeCall ==
    /\ statecall = NoCall
    /\ \E latest_state \in JobMessages :
        /\ job_state' = StateChange(job_state, latest_state)
        /\ statecall' = [op |-> "statechange", latest_state |-> latest_state,
                         pre |-> job_state]
        /\ reported' = latest_state
    /\ UNCHANGED <<graph, now, call, jobcall, ledgerVars, concVars, stop_requested>>

\* a stop request
StopCall ==
    /\ statecall = NoCall
    /\ job_state' = Stop(job_state)
    /\ statecall' = [op |-> "stop", pre |-> job_state]
    /\ stop_requested' = TRUE
    /\ UNCHANGED <<graph, now, call, jobcall, ledgerVars, concVars, reported>>

SetActiveCall ==
    /\ statecall = NoCall
    /\ \E active \in BOOLEAN :
        /\ job_state' = SetActive(job_state, active)
        /\ statecall' = [op |-> "set_active", active |-> active, pre |-> job_state]
    /\ UNCHANGED <<graph, now, call, jobcall, ledgerVars, concVars, reported, stop_requested>>

\* state(), should_stop(), is_active(), id()
GetterCall ==
    /\ statecall = NoCall
    /\ \/ statecall' = [op |-> "state", pre |-> job_state, ret |-> State(job_state)]
       \/ statecall' = [op |-> "should_stop", pre |-> job_state, ret |-> ShouldStop(job_state)]
       \/ statecall' = [op |-> "is_active", pre |-> job_state, ret |-> IsActive(job_state)]
       \/ statecall' = [op |-> "id", pre |-> job_state, ret |-> Id(job_state)]
    /\ UNCHANGED <<graph, now, call, jobcall, ledgerVars, concVars, job_state, reported,
                   stop_requested>>

StateReturn ==
    /\ statecall # NoCall
    /\ statecall' = NoCall
    /\ UNCHANGED <<graph, now, call, jobcall, ledgerVars, concVars, job_state, reported,
                   stop_requested>>

NextRegistry ==
    \/ NewCall
    \/ MissingCall
    \/ StateChangeCall
    \/ StopCall
    \/ SetActiveCall
    \/ GetterCall
    \/ StateReturn

SpecRegistry == Init /\ [][NextRegistry]_vars

(***************************************************************************)
(* Claims about JobState.                                                  *)
(***************************************************************************)
Getters == {"state", "should_stop", "is_active", "id"}
\* the calls that put a new record in the entry
Constructors == {"new", "missing"}

\* C16: new(state, id) yields active, not stopping, the given state and id;
\* missing() yields inactive, not stopping, NoJob; statechange changes only
\* latest_state, stop only should_stop, set_active only active, the getters
\* nothing (and return their field); no method changes id.
C16_JobStateFrame ==
    /\ statecall.op = "new" =>
            /\ job_state.active /\ ~job_state.should_stop
            /\ job_state.latest_state = statecall.latest_state
            /\ job_state.id = statecall.id
    /\ statecall.op = "missing" =>
            /\ ~job_state.active /\ ~job_state.should_stop
            /\ job_state.latest_state = "NoJob"
    /\ statecall.op = "statechange" =>
            job_state = [statecall.pre EXCEPT !.latest_state = statecall.latest_state]
    /\ statecall.op = "stop" =>
            job_state = [statecall.pre EXCEPT !.should_stop = TRUE]
    /\ statecall.op = "set_active" =>
            job_state = [statecall.pre EXCEPT !.active = statecall.active]
    /\ statecall.op \in Getters => job_state = statecall.pre
    /\ statecall.op = "state" => statecall.ret = statecall.pre.latest_state
    /\ statecall.op = "should_stop" => statecall.ret = statecall.pre.should_stop
    /\ statecall.op = "is_active" => statecall.ret = statecall.pre.active
    /\ statecall.op = "id" => statecall.ret = statecall.pre.id
    /\ (statecall # NoCall /\ statecall.op \notin Constructors) =>
            job_state.id = statecall.pre.id

\* set_active(false) on a running record that was asked to stop
C16_Witness ==
    /\ statecall.op = "set_active" /\ ~statecall.active
    /\ statecall.pre.active /\ statecall.pre.should_stop
    /\ statecall.pre.latest_state = "Stopping"
    /\ statecall.pre.id = 1

\* C17: on one record, should_stop stays true once it is true, whatever
\* statechange, set_active and stop calls follow; stop changes neither
\* latest_state nor active; and once stop() was called the record has
\* should_stop = true and the state the worker reported last.
C17_StopNeverLost ==
    /\ [](stop_requested =>
            job_state.should_stop /\ job_state.latest_state = reported)
    /\ [][statecall'.op \notin Constructors =>
            /\ job_state.should_stop => job_state'.should_stop
            /\ statecall'.op = "stop" =>
                    /\ job_state'.should_stop
                    /\ job_state'.latest_state = job_state.latest_state
                    /\ job_state'.active = job_state.active]_vars

\* the worker reports a new state after the stop request
C17_Witness ==
    /\ stop_requested
    /\ statecall.op = "statechange"
    /\ statecall.pre.should_stop
    /\ statecall.pre.latest_state = "Rebalancing"
    /\ job_state.latest_state = "Stopping"
    /\ job_state.should_stop

Terminal == {"Stopped", "Error"}

\* C18, as claimed: once latest_state is Stopped or Error, no later call on
\* that record changes it.
C18_TerminalStatesStay ==
    [][(job_state.latest_state \in Terminal /\ statecall'.op \notin Constructors) =>
            job_state'.latest_state = job_state.latest_state]_vars

\* C18, amended: on a record whose latest_state is Stopped or Error, stop,
\* set_active and the getters leave latest_state as it is; statechange
\* overwrites it with the state it is given, whatever that is.
C18_OnlyStateChangeLeavesTerminal ==
    [][(job_state.latest_state \in Terminal /\ statecall'.op \notin Constructors) =>
            IF statecall'.op = "statechange"
            THEN job_state'.latest_state = statecall'.latest_state
            ELSE job_state'.latest_state = job_state.latest_state]_vars

\* stop() on a record that is Stopped
C18_Witness ==
    /\ statecall.op = "stop"
    /\ statecall.pre.latest_state = "Stopped"
    /\ job_state.latest_state = "Stopped"
    /\ job_state.should_stop

\* statechange does take a record out of Stopped
C18_LeavesStopped ==
    /\ statecall.op = "statechange"
    /\ statecall.pre.latest_state = "Stopped"
    /\ job_state.latest_state = "Starting"

(***************************************************************************)
(* Claims about the liquidity belief and the temporary bans.               *)
(***************************************************************************)
\* what is structurally known of an edge: its htlc maximum, or its capacity
Ceiling(e) == UnwrapOr(e.channel.htlc_maximum_msat, e.channel.amount_msat)

\* C19, as claimed: in every state reached from the empty graph by update and
\* refresh_liquidity calls, each edge's believed liquidity is at most its
\* current htlc maximum (its capacity when the htlc maximum is absent).
C19_LiquidityWithinCeiling ==
    \A n \in DOMAIN graph : \A i \in 1..Len(graph[n]) :
        graph[n][i].liquidity <= Ceiling(graph[n][i])

\* C19, what the code gives: every edge of a snapshot graph is created with
\* half its ceiling as liquidity, and every edge refresh_liquidity resets
\* has half its ceiling afterwards.
C19_CreatedAtHalf ==
    /\ call.op = "update" =>
        \A n \in DOMAIN call.new_graph : \A i \in 1..Len(call.new_graph[n]) :
            call.new_graph[n][i].liquidity = Ceiling(call.new_graph[n][i]) \div 2
    /\ (call.op = "refresh_liquidity" /\ ~call.panicked) =>
        \A n \in DOMAIN graph : \A i \in 1..Len(graph[n]) :
            graph[n][i] # call.pre[n][i] =>
                graph[n][i].liquidity = Ceiling(graph[n][i]) \div 2

\* C20, as claimed: an edge of the node that meets every other condition of
\* edges(..) and whose temporary ban has an expiry before the current clock
\* is returned.
C20_ExpiredBanNotExcluded ==
    call.op = "edges" =>
        LET adj == IF call.node \in DOMAIN graph THEN graph[call.node] ELSE << >>
        IN  \A i \in 1..Len(adj) :
                LET id == adj[i].channel.short_channel_id IN
                (/\ EdgeFilter(adj[i], call.mypubkey, call.exclude, call.exclude_peers,
                               call.amount, call.candidatelist, << >>)
                 /\ id \in DOMAIN call.tempbans
                 /\ call.tempbans[id] < now)
                    => adj[i] \in Elements(call.ret)

\* C20, what the code gives: an edge whose id is a key of the temp-ban map is
\* never returned, whatever the expiry stored under it.
C20_BannedWhileInMap ==
    call.op = "edges" =>
        \A k \in 1..Len(call.ret) :
            call.ret[k].channel.short_channel_id \notin DOMAIN call.tempbans

(***************************************************************************)
(* Claims about the unsigned arithmetic.                                   *)
(***************************************************************************)
\* C21, as claimed: when interval * 60 is more than the current clock,
\* refresh_liquidity neither aborts nor resets any edge.
C21_LongIntervalResetsNothing ==
    (call.op = "refresh_liquidity" /\ call.interval * SecsPerMinute > now) =>
        /\ ~call.panicked
        /\ graph = call.pre

\* C21, what the code gives: when interval * 60 is more than the current
\* clock and the graph has an edge, the call either panics, leaving the graph
\* as it was, or resets every edge, having compared against the wrapped
\* cutoff; otherwise it never panics.
C21_LongIntervalPanicsOrResetsAll ==
    call.op = "refresh_liquidity" =>
        IF call.interval * SecsPerMinute > now /\ HasEdges(call.pre)
        THEN \/ call.panicked /\ graph = call.pre
             \/ /\ ~call.panicked
                /\ \A n \in DOMAIN graph : \A i \in 1..Len(graph[n]) :
                        graph[n][i] = ResetLiquidity(call.pre[n][i], now)
        ELSE ~call.panicked

\* C22, as claimed: for every channel whose relevant reserve is at most its
\* total, target_cap neither wraps nor aborts and returns at most
\* total - reserve.
C22_TargetWithinFree ==
    (/\ jobcall.op = "target_cap"
     /\ Populated(jobcall.channel)
     /\ RelevantReserve(jobcall.job, jobcall.channel) <= Unwrap(jobcall.channel.total_msat))
    => /\ ~jobcall.ret.panicked
       /\ jobcall.ret.value
            <= Unwrap(jobcall.channel.total_msat)
                 - RelevantReserve(jobcall.job, jobcall.channel)

\* C22, what the code gives: the same, for the channels with at least the
\* clamp margin above the relevant reserve.
C22_WithinFreeAboveMargin ==
    (/\ jobcall.op = "target_cap"
     /\ Populated(jobcall.channel)
     /\ Unwrap(jobcall.channel.total_msat)
            - RelevantReserve(jobcall.job, jobcall.channel) >= ClampMargin)
    => /\ ~jobcall.ret.panicked
       /\ jobcall.ret.value
            <= Unwrap(jobcall.channel.total_msat)
                 - RelevantReserve(jobcall.job, jobcall.channel)

\* C22: a channel with less than the clamp margin above the reserve, where a
\* build without overflow checks returns a wrapped target
C22_WrappedTarget ==
    /\ jobcall.op = "target_cap"
    /\ Populated(jobcall.channel)
    /\ ~jobcall.overflow_checks
    /\ ~jobcall.ret.panicked
    /\ jobcall.ret.value > Unwrap(jobcall.channel.total_msat)

====
